---- MODULE Spec2Model ----
(***************************************************************************)
(* Model of OpenAIEmbeddingProvider (py/core/providers/embeddings/openai.py) *)
(*                                                                         *)
(* Representation of Python values:                                        *)
(*   - a str is the sequence of its "/"-separated segments ("a/b" is       *)
(*     <<"a","b">>, "" is <<"">>), so that split("/") and the substring    *)
(*     test "openai/" in s are computed, not assumed; None is <<>>.        *)
(*   - a text to embed or tokenize is a sequence of pieces.                *)
(*   - an int | None dimension is an integer, None being NoDimension and   *)
(*     the client's NOT_GIVEN marker being NOT_GIVEN.                      *)
(*   - a dict of keyword arguments is a record with the set of keys that   *)
(*     are present and one field per key.                                  *)
(***************************************************************************)
EXTENDS Integers, Sequences, FiniteSets, TLC

VARIABLES
    MODEL_TO_TOKENIZER,   \* class attribute (dict)
    MODEL_TO_DIMENSIONS,  \* class attribute (dict of lists)
    provider,             \* "unconstructed" | "constructed" | "failed"
    init_error,           \* the error __init__ raised
    config,               \* the EmbeddingConfig handed to __init__
    env,                  \* os.environ as read by __init__
    base_model,           \* self.base_model
    base_dimension,       \* self.base_dimension
    last,                 \* the call in progress or the last one finished
    retries,              \* the retry wrapper's counter for the running task
    execs                 \* executions of _execute_task(_sync) for that call

vars == <<MODEL_TO_TOKENIZER, MODEL_TO_DIMENSIONS, provider, init_error,
          config, env, base_model, base_dimension, last, retries, execs>>

self_vars == <<MODEL_TO_TOKENIZER, MODEL_TO_DIMENSIONS, provider, init_error,
               config, env, base_model, base_dimension>>

----------------------------------------------------------------------------
(* Bounds *)

MaxRetries == 2
MaxInputTokens == 2
MaxResults == 3

----------------------------------------------------------------------------
(* Python values *)

None == <<>>
Str(s) == <<s>>
NoDimension == -1
NOT_GIVEN == -2

\* bool(s) for a str | None
Truthy(s) == s # None /\ s # Str("")

\* bool(n) for an int | None
TruthyInt(n) == n # NoDimension /\ n # 0

\* a segment whose text ends with "openai"
EndsWithOpenai(seg) == seg \in {"openai", "azure-openai"}

\* "openai/" in s
ContainsOpenaiSlash(s) == \E i \in 1..(Len(s) - 1) : EndsWithOpenai(s[i])

\* s.split("/")[-1]
SplitLast(s) == Str(s[Len(s)])

\* x in xs, for a list
InList(x, xs) == \E i \in 1..Len(xs) : xs[i] = x

\* max(xs), for a non-empty list of ints
MaxOf(xs) == CHOOSE m \in {xs[i] : i \in 1..Len(xs)} :
                 \A j \in 1..Len(xs) : xs[j] <= m

\* min(xs), for a non-empty list of ints
MinOf(xs) == CHOOSE m \in {xs[i] : i \in 1..Len(xs)} :
                 \A j \in 1..Len(xs) : xs[j] >= m

ADA == Str("text-embedding-ada-002")
SMALL == Str("text-embedding-3-small")
LARGE == Str("text-embedding-3-large")

TokenizerTable == (ADA :> "cl100k_base") @@ (SMALL :> "cl100k_base")
                  @@ (LARGE :> "cl100k_base")

DimensionsTable == (ADA :> <<1536>>) @@ (SMALL :> <<512, 1536>>)
                   @@ (LARGE :> <<256, 1024, 3072>>)

ValueError(msg) == [type |-> "ValueError", msg |-> msg]
NoError == [type |-> "", msg |-> <<>>]

----------------------------------------------------------------------------
(* __init__ *)

InitFailed(msg) == [error |-> ValueError(msg), base_model |-> None,
                    base_dimension |-> NoDimension]

\* the dimension checks of __init__ without the membership test
init_dimension_unchecked(bm, bd) ==
    IF TruthyInt(bd)
    THEN [error |-> NoError, base_model |-> bm, base_dimension |-> bd]
    ELSE [error |-> NoError, base_model |-> bm,
          base_dimension |-> MaxOf(MODEL_TO_DIMENSIONS[bm])]

\* the dimension checks of __init__ defaulting to the smallest dimension
init_dimension_smallest(bm, bd) ==
    IF TruthyInt(bd)
    THEN IF ~InList(bd, MODEL_TO_DIMENSIONS[bm])
         THEN InitFailed(<<"Dimensions ", "not supported">>)
         ELSE [error |-> NoError, base_model |-> bm, base_dimension |-> bd]
    ELSE [error |-> NoError, base_model |-> bm,
          base_dimension |-> MinOf(MODEL_TO_DIMENSIONS[bm])]

\* __init__, lines 74-88: bm, bd are self.base_model, self.base_dimension
init_dimension(bm, bd) ==
    IF TruthyInt(bd)
    THEN IF ~InList(bd, MODEL_TO_DIMENSIONS[bm])
         THEN InitFailed(<<"Dimensions ", "not supported">>)
         ELSE [error |-> NoError, base_model |-> bm, base_dimension |-> bd]
    ELSE [error |-> NoError, base_model |-> bm,
          base_dimension |-> MaxOf(MODEL_TO_DIMENSIONS[bm])]

\* __init__, lines 58-72, then the dimension checks
init_model(cfg) ==
    LET bm == IF Truthy(cfg.base_model) /\ ContainsOpenaiSlash(cfg.base_model)
              THEN SplitLast(cfg.base_model)
              ELSE cfg.base_model
        bd == cfg.base_dimension
    IN  IF ~Truthy(bm)
        THEN InitFailed(<<"Must set base_model">>)
        ELSE IF bm \notin DOMAIN MODEL_TO_TOKENIZER
        THEN InitFailed(<<"model not supported">>)
        ELSE init_dimension(bm, bd)

\* __init__ without the check of OPENAI_EMBEDDING_API_KEY
init_no_key_check(cfg, environ) ==
    IF ~Truthy(cfg.provider)
    THEN InitFailed(<<"Must set provider">>)
    ELSE IF cfg.provider # Str("openai")
    THEN InitFailed(<<"must be initialized with provider openai">>)
    ELSE IF Truthy(cfg.rerank_model)
    THEN InitFailed(<<"does not support separate reranking">>)
    ELSE init_model(cfg)

\* __init__: the record of what it raised and the fields it set
__init__(cfg, environ) ==
    IF ~Truthy(cfg.provider)
    THEN InitFailed(<<"Must set provider">>)
    ELSE IF cfg.provider # Str("openai")
    THEN InitFailed(<<"must be initialized with provider openai">>)
    ELSE IF ~Truthy(environ.OPENAI_EMBEDDING_API_KEY)
    THEN InitFailed(<<"Must set OPENAI_EMBEDDING_API_KEY">>)
    ELSE IF Truthy(cfg.rerank_model)
    THEN InitFailed(<<"does not support separate reranking">>)
    ELSE init_model(cfg)

----------------------------------------------------------------------------
(* Inputs *)

ProviderInputs == {None, Str(""), Str("openai"), Str("litellm")}
ApiKeyInputs == {None, Str(""), Str("sk-test")}
RerankModelInputs == {None, Str("rerank-v1")}
BaseModelInputs ==
    {None, Str(""), ADA, SMALL, LARGE, Str("gpt-4"),
     <<"openai", "text-embedding-3-small">>,
     <<"azure-openai", "text-embedding-ada-002">>,
     <<"azure", "text-embedding-3-small">>,
     <<"openai", "gpt-4">>,
     <<"openai", "">>}
BaseDimensionInputs == {NoDimension, 0, 7, 512, 1536, 3072}

ConfigInputs ==
    [provider : ProviderInputs, rerank_model : RerankModelInputs,
     base_model : BaseModelInputs, base_dimension : BaseDimensionInputs]
EnvInputs == [OPENAI_EMBEDDING_API_KEY : ApiKeyInputs]

NoCall == [op |-> "none", status |-> "none", args |-> <<>>,
           error |-> NoError, value |-> <<>>]

\* texts: sequences of pieces; LongText exceeds the token limit
LongText == [i \in 1..(MaxInputTokens + 1) |-> "a"]
TextInputs == {<<"a">>, LongText}
TextsInputs == {<<>>, <<(<<"a">>), LongText>>}
TokenizeTextInputs ==
    {<<>>, <<"a">>, <<"b", "a", "b">>,
     <<"<|endoftext|>">>, <<"a", "<|endoftext|>">>}
TokenizeModelInputs == {ADA, LARGE, Str("gpt-4"),
                        <<"openai", "text-embedding-3-small">>}

StageInputs == {"BASE", "RERANK"}

\* **kwargs of the embedding calls
Kwargs(keys, m, d) == [keys |-> keys, model |-> m, dimensions |-> d]
KwargsInputs ==
    {Kwargs({}, None, NoDimension),
     Kwargs({"model"}, ADA, NoDimension),
     Kwargs({"model"}, Str(""), NoDimension),
     Kwargs({"dimensions"}, None, 7),
     Kwargs({"model", "dimensions"}, LARGE, 256)}

\* outcomes of client.embeddings.create
RemoteFailures == {"AuthenticationError", "RateLimitError"}
RemoteOutcomes == {"ok"} \cup RemoteFailures

\* results handed to rerank: lists of distinct results, in ascending and in
\* descending order of their ids
Results == 1..MaxResults
ResultsInputs ==
    {[i \in 1..n |-> i] : n \in 0..MaxResults}
    \cup {[i \in 1..n |-> n + 1 - i] : n \in 2..MaxResults}
LimitInputs == {-1, 0, 1, MaxResults - 1, MaxResults, 10}

Init ==
    /\ MODEL_TO_TOKENIZER = TokenizerTable
    /\ MODEL_TO_DIMENSIONS = DimensionsTable
    /\ provider = "unconstructed"
    /\ init_error = NoError
    /\ config \in ConfigInputs
    /\ env \in EnvInputs
    /\ base_model = None
    /\ base_dimension = NoDimension
    /\ last = NoCall
    /\ retries = 0
    /\ execs = <<>>

\* OpenAIEmbeddingProvider(config)
Construct ==
    /\ provider = "unconstructed"
    /\ LET r == __init__(config, env)
       IN  /\ provider' = IF r.error = NoError THEN "constructed" ELSE "failed"
           /\ init_error' = r.error
           /\ base_model' = r.base_model
           /\ base_dimension' = r.base_dimension
    /\ UNCHANGED <<MODEL_TO_TOKENIZER, MODEL_TO_DIMENSIONS, config, env,
                   last, retries, execs>>

----------------------------------------------------------------------------
(* Request parameters *)

\* _get_dimensions returning base_dimension for every model
_get_dimensions_always == 
    IF TruthyInt(base_dimension)
    THEN base_dimension
    ELSE MODEL_TO_DIMENSIONS[base_model][Len(MODEL_TO_DIMENSIONS[base_model])]

_get_dimensions ==
    IF base_model = ADA
    THEN NOT_GIVEN
    ELSE IF TruthyInt(base_dimension)
    THEN base_dimension
    ELSE MODEL_TO_DIMENSIONS[base_model][Len(MODEL_TO_DIMENSIONS[base_model])]

\* d | k for two dicts
DictMerge(d, k) ==
    Kwargs(d.keys \cup k.keys,
           IF "model" \in k.keys THEN k.model ELSE d.model,
           IF "dimensions" \in k.keys THEN k.dimensions ELSE d.dimensions)

\* d.get("model")
GetModel(d) == IF "model" \in d.keys THEN d.model ELSE None

_get_embedding_kwargs(kwargs) ==
    DictMerge(Kwargs({"model", "dimensions"}, base_model, _get_dimensions),
              kwargs)

Min(a, b) == IF a < b THEN a ELSE b
Max(a, b) == IF a > b THEN a ELSE b

\* utils.truncate_texts_to_token_limit when it does not raise: every text
\* cut to the model's token limit, one piece counting as one token
truncate_texts_to_token_limit(texts, model) ==
    [i \in 1..Len(texts) |->
        SubSeq(texts[i], 1, Min(Len(texts[i]), MaxInputTokens))]

\* the embedding the endpoint computes for a text
Embedding(text) == [embedding |-> text]

AuthMessage == <<"Invalid OpenAI API key provided. Please check your OPENAI_API_KEY environment variable.">>
ErrorMessage(cause) == <<"Error getting embeddings: ", cause>>

Exec(truncation, requests, remote, error, value) ==
    [truncation |-> truncation, requests |-> requests, remote |-> remote,
     error |-> error, value |-> value]

----------------------------------------------------------------------------
(* _execute_task and _execute_task_sync: one execution, given whether the   *)
(* truncation raises and what the endpoint answers                          *)

\* _execute_task letting a failure other than authentication through as is
_execute_task_reraise(task, truncRaises, remote) ==
    LET texts == task.texts
        kwargs == _get_embedding_kwargs(task.kwargs)
        attempted == Truthy(GetModel(kwargs))
        input == IF attempted /\ ~truncRaises
                 THEN truncate_texts_to_token_limit(texts, kwargs.model)
                 ELSE texts
    IN  Exec(IF ~attempted THEN "skipped"
             ELSE IF truncRaises THEN "raised" ELSE "done",
             <<[input |-> input, kwargs |-> kwargs]>>,
             remote,
             IF remote = "ok" THEN NoError
             ELSE IF remote = "AuthenticationError"
             THEN ValueError(AuthMessage)
             ELSE [type |-> remote, msg |-> <<remote>>],
             IF remote = "ok"
             THEN [i \in 1..Len(input) |-> Embedding(input[i])]
             ELSE <<>>)

_execute_task(task, truncRaises, remote) ==
    LET texts == task.texts
        kwargs == _get_embedding_kwargs(task.kwargs)
        attempted == Truthy(GetModel(kwargs))
        input == IF attempted /\ ~truncRaises
                 THEN truncate_texts_to_token_limit(texts, kwargs.model)
                 ELSE texts
    IN  Exec(IF ~attempted THEN "skipped"
             ELSE IF truncRaises THEN "raised" ELSE "done",
             <<[input |-> input, kwargs |-> kwargs]>>,
             remote,
             IF remote = "ok" THEN NoError
             ELSE IF remote = "AuthenticationError"
             THEN ValueError(AuthMessage)
             ELSE ValueError(ErrorMessage(remote)),
             IF remote = "ok"
             THEN [i \in 1..Len(input) |-> Embedding(input[i])]
             ELSE <<>>)

\* _execute_task_sync without contextlib.suppress around the truncation
_execute_task_sync_unsuppressed(task, truncRaises, remote) ==
    LET texts == task.texts
        kwargs == _get_embedding_kwargs(task.kwargs)
        attempted == Truthy(GetModel(kwargs))
        input == IF attempted /\ ~truncRaises
                 THEN truncate_texts_to_token_limit(texts, kwargs.model)
                 ELSE texts
    IN  IF attempted /\ truncRaises
        THEN Exec("raised", <<>>, "none",
                  ValueError(ErrorMessage("truncation")), <<>>)
        ELSE Exec(IF ~attempted THEN "skipped" ELSE "done",
                  <<[input |-> input, kwargs |-> kwargs]>>,
                  remote,
                  IF remote = "ok" THEN NoError
                  ELSE IF remote = "AuthenticationError"
                  THEN ValueError(AuthMessage)
                  ELSE ValueError(ErrorMessage(remote)),
                  IF remote = "ok"
                  THEN [i \in 1..Len(input) |-> Embedding(input[i])]
                  ELSE <<>>)

_execute_task_sync(task, truncRaises, remote) ==
    LET texts == task.texts
        kwargs == _get_embedding_kwargs(task.kwargs)
        attempted == Truthy(GetModel(kwargs))
        input == IF attempted /\ ~truncRaises
                 THEN truncate_texts_to_token_limit(texts, kwargs.model)
                 ELSE texts
    IN  Exec(IF ~attempted THEN "skipped"
             ELSE IF truncRaises THEN "raised" ELSE "done",
             <<[input |-> input, kwargs |-> kwargs]>>,
             remote,
             IF remote = "ok" THEN NoError
             ELSE IF remote = "AuthenticationError"
             THEN ValueError(AuthMessage)
             ELSE ValueError(ErrorMessage(remote)),
             IF remote = "ok"
             THEN [i \in 1..Len(input) |-> Embedding(input[i])]
             ELSE <<>>)

----------------------------------------------------------------------------
(* The embedding operations *)

Call(op, status, args, error, value) ==
    [op |-> op, status |-> status, args |-> args, error |-> error,
     value |-> value]

Task(texts, stage, kwargs) ==
    [texts |-> texts, stage |-> stage, kwargs |-> kwargs]

StageError == ValueError(<<"OpenAIEmbeddingProvider only supports search stage.">>)

Idle == provider = "constructed" /\ last.status # "running"

\* the entry of the four operations: the stage check, then the task
Enter(op, texts, stage, kwargs) ==
    /\ last' = IF stage # "BASE"
               THEN Call(op, "raised", Task(texts, stage, kwargs),
                         StageError, <<>>)
               ELSE Call(op, "running", Task(texts, stage, kwargs),
                         NoError, <<>>)
    /\ retries' = 0
    /\ execs' = <<>>

async_get_embedding ==
    /\ Idle
    /\ \E text \in TextInputs, stage \in StageInputs, kwargs \in KwargsInputs :
          Enter("async_get_embedding", <<text>>, stage, kwargs)
    /\ UNCHANGED self_vars

\* get_embedding storing the caller's model on the provider
get_embedding_stores_model ==
    /\ Idle
    /\ \E text \in TextInputs, stage \in StageInputs, kwargs \in KwargsInputs :
          /\ Enter("get_embedding", <<text>>, stage, kwargs)
          /\ base_model' = IF "model" \in kwargs.keys /\ Truthy(kwargs.model)
                           THEN kwargs.model ELSE base_model
    /\ UNCHANGED <<MODEL_TO_TOKENIZER, MODEL_TO_DIMENSIONS, provider,
                   init_error, config, env, base_dimension>>

get_embedding ==
    /\ Idle
    /\ \E text \in TextInputs, stage \in StageInputs, kwargs \in KwargsInputs :
          Enter("get_embedding", <<text>>, stage, kwargs)
    /\ UNCHANGED self_vars

async_get_embeddings ==
    /\ Idle
    /\ \E texts \in TextsInputs, stage \in StageInputs, kwargs \in KwargsInputs :
          Enter("async_get_embeddings", texts, stage, kwargs)
    /\ UNCHANGED self_vars

\* get_embeddings without the stage check
get_embeddings_unchecked ==
    /\ Idle
    /\ \E texts \in TextsInputs, stage \in StageInputs, kwargs \in KwargsInputs :
          /\ last' = Call("get_embeddings", "running",
                          Task(texts, stage, kwargs), NoError, <<>>)
          /\ retries' = 0
          /\ execs' = <<>>
    /\ UNCHANGED self_vars

get_embeddings ==
    /\ Idle
    /\ \E texts \in TextsInputs, stage \in StageInputs, kwargs \in KwargsInputs :
          Enter("get_embeddings", texts, stage, kwargs)
    /\ UNCHANGED self_vars

\* what the operation returns of the wrapper's result
Returned(op, result) ==
    IF op \in {"get_embedding", "async_get_embedding"}
    THEN result[1]
    ELSE result

\* the retry wrapper after one execution e of the task
Backoff(e) ==
    /\ execs' = Append(execs, e)
    /\ IF e.error = NoError
       THEN /\ last' = [last EXCEPT !.status = "returned",
                                    !.value = Returned(last.op, e.value)]
            /\ retries' = retries
       ELSE IF retries + 1 >= MaxRetries
       THEN /\ last' = [last EXCEPT !.status = "raised", !.error = e.error]
            /\ retries' = retries + 1
       ELSE /\ retries' = retries + 1
            /\ UNCHANGED last

_execute_with_backoff_async ==
    /\ last.status = "running"
    /\ last.op \in {"async_get_embedding", "async_get_embeddings"}
    /\ \E truncRaises \in BOOLEAN, remote \in RemoteOutcomes :
          Backoff(_execute_task(last.args, truncRaises, remote))
    /\ UNCHANGED self_vars

_execute_with_backoff_sync ==
    /\ last.status = "running"
    /\ last.op \in {"get_embedding", "get_embeddings"}
    /\ \E truncRaises \in BOOLEAN, remote \in RemoteOutcomes :
          Backoff(_execute_task_sync(last.args, truncRaises, remote))
    /\ UNCHANGED self_vars

----------------------------------------------------------------------------
(* Reranking *)

\* xs[:limit]
SliceTo(xs, limit) ==
    SubSeq(xs, 1, IF limit < 0 THEN Max(Len(xs) + limit, 0)
                  ELSE Min(limit, Len(xs)))

RerankArgs(query, results, limit) ==
    [query |-> query, results |-> results, limit |-> limit]

\* rerank returning the results after the limit
rerank_tail ==
    /\ Idle
    /\ \E results \in ResultsInputs, limit \in LimitInputs :
          last' = Call("rerank", "returned",
                       RerankArgs(Str("q"), results, limit), NoError,
                       SubSeq(results, Len(SliceTo(results, limit)) + 1,
                              Len(results)))
    /\ retries' = 0
    /\ execs' = <<>>
    /\ UNCHANGED self_vars

rerank ==
    /\ Idle
    /\ \E results \in ResultsInputs, limit \in LimitInputs :
          last' = Call("rerank", "returned",
                       RerankArgs(Str("q"), results, limit), NoError,
                       SliceTo(results, limit))
    /\ retries' = 0
    /\ execs' = <<>>
    /\ UNCHANGED self_vars

arerank ==
    /\ Idle
    /\ \E results \in ResultsInputs, limit \in LimitInputs :
          last' = Call("arerank", "returned",
                       RerankArgs(Str("q"), results, limit), NoError,
                       SliceTo(results, limit))
    /\ retries' = 0
    /\ execs' = <<>>
    /\ UNCHANGED self_vars

----------------------------------------------------------------------------
(* Tokenization *)

\* the special tokens of the cl100k_base encoding that occur in the inputs
SpecialTokens == {"<|endoftext|>"}

RECURSIVE BytePairs(_)
\* the byte-pair encoding of a text without special tokens
BytePairs(text) ==
    IF text = <<>> THEN <<>>
    ELSE IF Len(text) >= 2 /\ text[1] = "a" /\ text[2] = "b"
    THEN <<370>> \o BytePairs(SubSeq(text, 3, Len(text)))
    ELSE <<(IF text[1] = "a" THEN 64 ELSE 65)>> \o BytePairs(Tail(text))

\* encoding.encode(text) with its default disallowed_special="all"
encode(text) ==
    IF \E i \in 1..Len(text) : text[i] \in SpecialTokens
    THEN [error |-> ValueError(<<"Encountered text corresponding to disallowed special token">>),
          value |-> <<>>]
    ELSE [error |-> NoError, value |-> BytePairs(text)]

tokenize_string ==
    /\ Idle
    /\ \E text \in TokenizeTextInputs, model \in TokenizeModelInputs :
          LET r == IF model \notin DOMAIN MODEL_TO_TOKENIZER
                   THEN [error |-> ValueError(<<"model not supported">>),
                         value |-> <<>>]
                   ELSE encode(text)
          IN  last' = Call("tokenize_string",
                           IF r.error = NoError THEN "returned" ELSE "raised",
                           [text |-> text, model |-> model], r.error, r.value)
    /\ retries' = 0
    /\ execs' = <<>>
    /\ UNCHANGED self_vars

----------------------------------------------------------------------------

Next ==
    \/ Construct
    \/ async_get_embedding
    \/ get_embedding
    \/ async_get_embeddings
    \/ get_embeddings
    \/ _execute_with_backoff_async
    \/ _execute_with_backoff_sync
    \/ rerank
    \/ arerank
    \/ tokenize_string


Spec == Init /\ [][Next]_vars

----------------------------------------------------------------------------
(* Properties *)

EmbeddingOps == {"get_embedding", "get_embeddings", "async_get_embedding",
                 "async_get_embeddings"}
SyncOps == {"get_embedding", "get_embeddings"}
AsyncOps == {"async_get_embedding", "async_get_embeddings"}

Constructed == provider # "unconstructed"

OtherConfigValid ==
    /\ config.provider = Str("openai")
    /\ Truthy(env.OPENAI_EMBEDDING_API_KEY)
    /\ ~Truthy(config.rerank_model)

UnsupportedDimension ==
    /\ config.base_model \in {ADA, SMALL, LARGE}
    /\ config.base_dimension # NoDimension
    /\ config.base_dimension # 0
    /\ \A i \in 1..Len(DimensionsTable[config.base_model]) :
          DimensionsTable[config.base_model][i] # config.base_dimension

\* C1: constructing the provider with a supported base_model and a set,
\* non-zero base_dimension that is not among the model's dimensions fails
\* with an error, and no provider instance is obtained.
C1_UnsupportedDimensionFails ==
    (Constructed /\ UnsupportedDimension)
        => (provider = "failed" /\ init_error.type = "ValueError")

C1_Witness ==
    /\ provider = "failed"
    /\ UnsupportedDimension
    /\ OtherConfigValid
    /\ init_error = ValueError(<<"Dimensions ", "not supported">>)

RequiredValueOmitted ==
    \/ config.provider \in {None, Str("")}
    \/ env.OPENAI_EMBEDDING_API_KEY \in {None, Str("")}
    \/ config.base_model \in {None, Str("")}

\* C2: construction fails with an error whenever config.provider is empty,
\* OPENAI_EMBEDDING_API_KEY is unset or empty, or config.base_model is empty,
\* whatever the other configuration values are.
C2_OmittedValueFails ==
    (Constructed /\ RequiredValueOmitted)
        => (provider = "failed" /\ init_error.type = "ValueError")

C2_Witness ==
    /\ provider = "failed"
    /\ env.OPENAI_EMBEDDING_API_KEY = None
    /\ config.provider = Str("openai")
    /\ config.base_model = SMALL
    /\ config.base_dimension = 512
    /\ init_error = ValueError(<<"Must set OPENAI_EMBEDDING_API_KEY">>)

\* C3: in the synchronous and the asynchronous path, every failure of the
\* remote embeddings call leaves the execution as a ValueError: the fixed
\* invalid-key message for an authentication failure, "Error getting
\* embeddings: <cause>" for every other failure.
C3_RemoteFailuresBecomeValueError ==
    \A i \in 1..Len(execs) :
        LET e == execs[i]
        IN  /\ e.remote = "AuthenticationError"
                => e.error = [type |-> "ValueError", msg |-> AuthMessage]
            /\ (e.remote # "ok" /\ e.remote # "AuthenticationError")
                => e.error = [type |-> "ValueError",
                              msg |-> <<"Error getting embeddings: ", e.remote>>]
            /\ e.remote # "ok" => e.error.type = "ValueError"

C3_Witness ==
    /\ last.op \in AsyncOps
    /\ last.status = "raised"
    /\ Len(execs) = 2
    /\ execs[1].remote = "RateLimitError"
    /\ execs[2].remote = "AuthenticationError"
    /\ last.error = ValueError(AuthMessage)

IsPrefix(v, r) == Len(v) <= Len(r) /\ \A i \in 1..Len(v) : v[i] = r[i]

\* C4 as stated: rerank and arerank return the input results unchanged, for
\* every results list and every limit.
C4_RerankReturnsInput ==
    (last.op \in {"rerank", "arerank"} /\ last.status = "returned")
        => last.value = last.args.results

\* C4 as amended: rerank and arerank return results[:limit], a prefix of the
\* input in the input's order: the whole input when limit >= len(results),
\* its first limit elements when 0 <= limit < len(results), and all but its
\* last -limit elements when limit < 0.
C4_RerankReturnsPrefix ==
    (last.op \in {"rerank", "arerank"} /\ last.status = "returned")
        => LET r == last.args.results
               l == last.args.limit
               v == last.value
           IN  /\ IsPrefix(v, r)
               /\ l >= Len(r) => v = r
               /\ (0 <= l /\ l < Len(r)) => Len(v) = l
               /\ (l < 0 /\ Len(r) + l >= 0) => Len(v) = Len(r) + l
               /\ (l < 0 /\ Len(r) + l < 0) => v = <<>>

C4_Witness ==
    /\ last.op = "rerank"
    /\ last.status = "returned"
    /\ last.args.results = <<3, 2, 1>>
    /\ last.args.limit = 2
    /\ last.value = <<3, 2>>

C6_TokenizeNonEmpty ==
    (last.op = "tokenize_string" /\ last.status # "running")
        => /\ (last.args.model \in {ADA, SMALL, LARGE} /\ last.args.text # <<>>)
                => /\ last.status = "returned"
                   /\ last.value # <<>>
                   /\ \A i \in 1..Len(last.value) : last.value[i] \in Int
           /\ last.args.model \notin {ADA, SMALL, LARGE}
                => /\ last.status = "raised"
                   /\ last.value = <<>>

\* C7: a call of get_embedding, get_embeddings, async_get_embedding or
\* async_get_embeddings with a stage other than BASE fails with an error
\* before a task reaches the retry wrapper: no execution and no remote
\* request happens for it.
C7_NonBaseStageRejected ==
    (last.op \in EmbeddingOps /\ last.args.stage # "BASE")
        => /\ last.status = "raised"
           /\ last.error.type = "ValueError"
           /\ execs = <<>>
           /\ retries = 0

C7_Witness ==
    /\ last.op = "get_embeddings"
    /\ last.args.stage = "RERANK"
    /\ last.args.texts = <<(<<"a">>), LongText>>
    /\ last.status = "raised"
    /\ execs = <<>>

\* C8: within one execution of _execute_task / _execute_task_sync, when the
\* truncation raises, exactly one remote request is still issued, with the
\* original untruncated texts, and the execution fails only if that request
\* does.
C8_TruncationFailureSuppressed ==
    \A i \in 1..Len(execs) :
        execs[i].truncation = "raised"
            => /\ Len(execs[i].requests) = 1
               /\ execs[i].requests[1].input = last.args.texts
               /\ execs[i].remote \in RemoteOutcomes
               /\ execs[i].remote = "ok" => execs[i].error = NoError

C8_Witness ==
    /\ last.op = "get_embeddings"
    /\ last.status = "returned"
    /\ last.args.texts = <<(<<"a">>), LongText>>
    /\ Len(execs) = 1
    /\ execs[1].truncation = "raised"
    /\ execs[1].requests[1].input = <<(<<"a">>), LongText>>
    /\ last.value = <<[embedding |-> <<"a">>], [embedding |-> LongText]>>

\* C9: once construction succeeded, in every state afterwards base_model is
\* a key of MODEL_TO_TOKENIZER and base_dimension is one of
\* MODEL_TO_DIMENSIONS[base_model]; it is the largest of them when
\* config.base_dimension is unset.
C9_ConstructedInvariant ==
    provider = "constructed"
        => /\ base_model \in DOMAIN MODEL_TO_TOKENIZER
           /\ base_model \in DOMAIN MODEL_TO_DIMENSIONS
           /\ \E i \in 1..Len(MODEL_TO_DIMENSIONS[base_model]) :
                 MODEL_TO_DIMENSIONS[base_model][i] = base_dimension
           /\ config.base_dimension = NoDimension
                => \A i \in 1..Len(MODEL_TO_DIMENSIONS[base_model]) :
                      MODEL_TO_DIMENSIONS[base_model][i] <= base_dimension

C9_Witness ==
    /\ provider = "constructed"
    /\ config.base_model = <<"openai", "text-embedding-3-small">>
    /\ config.base_dimension = NoDimension
    /\ base_model = SMALL
    /\ base_dimension = 1536
    /\ last.status = "returned"

Supported(model, dimensions) ==
    /\ model \in DOMAIN DimensionsTable
    /\ \E i \in 1..Len(DimensionsTable[model]) :
          DimensionsTable[model][i] = dimensions

\* C10 as stated: in every remote request, whatever the caller's kwargs,
\* 'dimensions' is omitted exactly when the request's model is
\* text-embedding-ada-002, otherwise it equals base_dimension, and it is
\* either omitted or a dimensionality the request's model supports.
C10_DimensionsAlwaysSupported ==
    \A i \in 1..Len(execs) : \A j \in 1..Len(execs[i].requests) :
        LET k == execs[i].requests[j].kwargs
        IN  /\ (k.dimensions = NOT_GIVEN) <=> (k.model = ADA)
            /\ k.model # ADA => k.dimensions = base_dimension
            /\ k.dimensions = NOT_GIVEN \/ Supported(k.model, k.dimensions)

\* C10 as amended: in every remote request of a call whose kwargs name
\* neither 'model' nor 'dimensions', the model is base_model and 'dimensions'
\* is omitted exactly when the model is text-embedding-ada-002, otherwise it
\* equals base_dimension, a dimensionality the model supports; a 'model' or
\* 'dimensions' the caller names is sent as given in place of that default.
C10_DefaultDimensionsSupported ==
    \A i \in 1..Len(execs) : \A j \in 1..Len(execs[i].requests) :
        LET k == execs[i].requests[j].kwargs
            c == last.args.kwargs
        IN  /\ c.keys = {}
                => /\ k.model = base_model
                   /\ (k.dimensions = NOT_GIVEN) <=> (k.model = ADA)
                   /\ k.model # ADA => k.dimensions = base_dimension
                   /\ k.dimensions = NOT_GIVEN
                        \/ Supported(k.model, k.dimensions)
            /\ "model" \in c.keys => k.model = c.model
            /\ "dimensions" \in c.keys => k.dimensions = c.dimensions
            /\ "model" \notin c.keys => k.model = base_model
            /\ "dimensions" \notin c.keys
                => k.dimensions = IF base_model = ADA THEN NOT_GIVEN
                                  ELSE base_dimension

C10_Witness ==
    /\ last.op = "async_get_embedding"
    /\ last.status = "returned"
    /\ last.args.kwargs.keys = {}
    /\ base_model = ADA
    /\ Len(execs) = 1
    /\ execs[1].requests[1].kwargs.model = ADA
    /\ execs[1].requests[1].kwargs.dimensions = NOT_GIVEN
====
